---- MODULE Spec2Model ----
(***************************************************************************)
(* Model of the auth service of roll-own-auth (src/src/auth-service.ts):   *)
(* SqliteUserRepository, BcryptAuthService.signUp / login /                *)
(* authenticateRequest, with bcrypt digests, pepper rotation and JWTs.     *)
(*                                                                         *)
(* Strings that the code concatenates (peppers, passwords) are sequences   *)
(* of characters, so that pepper + password is real concatenation.         *)
(* A bcrypt digest is the pair (salt, hashed input); compare() recomputes  *)
(* the hash of its input under the digest's salt.  A JWT is the pair       *)
(* (payload, HMAC of the payload under the signing secret).                *)
(* Every async method is cut at its await points: one action per segment.  *)
(***************************************************************************)
EXTENDS Integers, Sequences, FiniteSets, TLC

\* ---------------------------------------------------------------- bounds
MaxPeppers == 2
MaxSalt == 2
MaxClock == 3
MaxLifetime == 1
MaxHeaderLen == 5

Usernames == {"u1", "u2"}
Calls == {"c1", "c2"}

\* the empty password and two passwords of one character
Passwords == {<<>>, <<"a">>, <<"b">>}

\* two unrelated peppers, and one that extends another
PepperStrings == {<<"a">>, <<"b">>, <<"a", "b">>}
PepperLists == UNION {[1..n -> PepperStrings] : n \in 1..MaxPeppers}
Lifetimes == 1..MaxLifetime

\* ---------------------------------------------------------------- state
VARIABLES
  peppers,        \* config.peppers
  jwtExpireTime,  \* config.jwtExpireTime, in seconds
  users,          \* rows of table users
  nextId,         \* next rowid of table users
  now,            \* wall clock, in seconds
  pc,             \* position of each call of signUp / login
  call,           \* locals of each call
  registered,     \* username -> the password its record was registered with,
                  \* the writer of its digest and the password of that write
  auth            \* the last authenticateRequest: its header and its result

vars == <<peppers, jwtExpireTime, users, nextId, now, pc, call, registered, auth>>

\* AuthConfig.jwtSecret, and a secret that is not the configured one
JwtSecret == "jwt-secret"
OtherSecret == "wrong-secret"

\* ---------------------------------------------------------------- bcrypt
\* hash(data, rounds): a digest that embeds its salt
BcryptHash(data, salt) == [salt |-> salt, pre |-> data]

\* compare(data, digest)
BcryptCompare(data, digest) == BcryptHash(data, digest.salt) = digest

\* a password_hash that is not a bcrypt digest but the given text itself
Raw(text) == [salt |-> 0, pre |-> text]

\* the empty string as a password_hash
EmptyHash == [salt |-> 0, pre |-> <<>>]
Salts == 1..MaxSalt

\* ---------------------------------------------------------------- records
NoUser == [id |-> 0, username |-> "", password_hash |-> EmptyHash]
NoPassword == <<"none">>
NullPepper == <<"null">>

NoPayload == [username |-> "", id |-> 0, iat |-> 0, exp |-> 0]
NoToken == [payload |-> NoPayload, sig |-> [key |-> "", msg |-> NoPayload]]

\* registered[u] when u has no record
NotRegistered == [password |-> NoPassword, by |-> "none", last |-> NoPassword]

NoResult == [success |-> FALSE, message |-> "", token |-> NoToken]
Threw == [success |-> FALSE, message |-> "<rejected>", token |-> NoToken]

IdleCall ==
  [op |-> "none", username |-> "", password |-> <<>>, user |-> NoUser,
   i |-> 0, isValid |-> FALSE, usedPepper |-> NullPepper, compares |-> 0,
   error |-> "none", rewrote |-> FALSE, was |-> NotRegistered, issuedAt |-> 0,
   result |-> NoResult, status |-> 0]


\* ---------------------------------------------------------------- repository
\* (mutant) the SELECT without its WHERE clause
findByUsername_AnyRow(username) ==
  IF users # {} THEN CHOOSE r \in users : TRUE ELSE NoUser

\* SqliteUserRepository.findByUsername
findByUsername(username) ==
  IF \E r \in users : r.username = username
  THEN CHOOSE r \in users : r.username = username
  ELSE NoUser

\* schema.sql: users.username is UNIQUE
UniqueViolation(username) == \E r \in users : r.username = username

\* SqliteUserRepository.create: the error the INSERT throws, "none" when the
\* promise resolves.  fault: the statement throws for a cause other than
\* uniqueness (database locked, read-only or closed, disk full)
\* (mutant) the INSERT never fails on an existing username
createError_NoConstraint(username, fault) == IF fault THEN "other" ELSE "none"

createError(username, fault) ==
  IF fault THEN "other"
  ELSE IF UniqueViolation(username) THEN "unique"
  ELSE "none"

\* (mutant) the row is inserted before its digest is set
createRows_DigestLater(username, passwordHash) ==
  users \cup {[id |-> nextId, username |-> username, password_hash |-> EmptyHash]}

\* (mutant) the INSERT gives every row the same id
createRows_FixedId(username, passwordHash) ==
  users \cup {[id |-> 1, username |-> username, password_hash |-> passwordHash]}

createRows(username, passwordHash) ==
  users \cup {[id |-> nextId, username |-> username, password_hash |-> passwordHash]}

\* (mutant) the WHERE clause of the UPDATE matches no row
updateRows_NoRow(userId, passwordHash) == users

\* (mutant) an UPDATE that finds the row already rewritten from the same
\* input empties its digest
updateRows_RedundantClears(userId, passwordHash) ==
  {IF r.id # userId THEN r
   ELSE IF r.password_hash.pre = passwordHash.pre
   THEN [r EXCEPT !.password_hash = EmptyHash]
   ELSE [r EXCEPT !.password_hash = passwordHash] : r \in users}

\* SqliteUserRepository.updatePasswordHash: the UPDATE ... WHERE id = ?
updateRows(userId, passwordHash) ==
  {IF r.id = userId THEN [r EXCEPT !.password_hash = passwordHash] ELSE r : r \in users}

\* ---------------------------------------------------------------- hasher
\* (mutant) the digest is derived under the last pepper of the list
hashPassword_LastPepper(password, salt) ==
  BcryptHash(peppers[Len(peppers)] \o password, salt)

\* (mutant) the password is stored as it is
hashPassword_Plain(password, salt) == Raw(password)

\* (mutant) the digest is derived from the password without a pepper
hashPassword_NoPepper(password, salt) == BcryptHash(password, salt)

\* config.peppers[0] as the operand of +: the text 'undefined' when the list
\* is empty
Undefined == <<"undefined">>
primaryPepper == IF peppers # <<>> THEN peppers[1] ELSE Undefined

\* BcryptAuthService.hashPassword
hashPassword(password, salt) == BcryptHash(primaryPepper \o password, salt)

\* (mutant) the compare leaves the pepper out
comparePepper_NoPepper(i, password, hash) == BcryptCompare(password, hash)

\* BcryptAuthService.verifyPassword: the compare of the i-th loop iteration
\* (mutant) the loop walks the pepper list from its last entry
comparePepper_Reversed(i, password, hash) ==
  BcryptCompare(peppers[Len(peppers) + 1 - i] \o password, hash)

comparePepper(i, password, hash) == BcryptCompare(peppers[i] \o password, hash)

\* BcryptAuthService.verifyPassword as a whole: the peppers are tried in list
\* order and the first that matches is returned; compares: calls of compare
verifyPassword(password, hash) ==
  IF hash = EmptyHash
  THEN [isValid |-> FALSE, usedPepper |-> NullPepper, compares |-> 0]
  ELSE IF \E i \in 1..Len(peppers) : comparePepper(i, password, hash)
  THEN LET i == CHOOSE i \in 1..Len(peppers) :
                  /\ comparePepper(i, password, hash)
                  /\ \A j \in 1..(i - 1) : ~comparePepper(j, password, hash)
       IN [isValid |-> TRUE, usedPepper |-> peppers[i], compares |-> i]
  ELSE [isValid |-> FALSE, usedPepper |-> NullPepper, compares |-> Len(peppers)]

\* ---------------------------------------------------------------- tokens
HS256(secret, payload) == [key |-> secret, msg |-> payload]

\* (mutant) expiresIn is taken as the time of expiry, not as a lifetime
sign_AbsoluteExpiry(username, id, secret, expiresIn) ==
  LET payload == [username |-> username, id |-> id, iat |-> now, exp |-> expiresIn]
  IN [payload |-> payload, sig |-> HS256(secret, payload)]

\* jsonwebtoken sign(payload, secret, {expiresIn})
sign(username, id, secret, expiresIn) ==
  LET payload == [username |-> username, id |-> id, iat |-> now, exp |-> now + expiresIn]
  IN [payload |-> payload, sig |-> HS256(secret, payload)]

\* (mutant) expiry is not checked
verify_NoExpiry(token, secret) ==
  /\ token # NoToken
  /\ token.sig = HS256(secret, token.payload)

\* (mutant) the token is decoded, its signature is not checked
verify_NoSignature(token, secret) ==
  /\ token # NoToken
  /\ now < token.payload.exp

\* jsonwebtoken verify(token, secret): TRUE when it returns the payload,
\* FALSE when it throws
verify(token, secret) ==
  /\ token # NoToken
  /\ token.sig = HS256(secret, token.payload)
  /\ now < token.payload.exp

\* ---------------------------------------------------------------- requests
\* An Authorization value is a sequence of pieces: the literal "Bearer", one
\* space " ", some other non-space text "x", or the text of a token.
Lit(text) == [lit |-> text, tok |-> NoToken]
Tok(token) == [lit |-> "", tok |-> token]
Space == Lit(" ")
Bearer == Lit("Bearer")

\* a request without (present = FALSE) or with an Authorization header
NoHeader == [present |-> FALSE, value |-> <<>>]
Header(value) == [present |-> TRUE, value |-> value]

\* (mutant) only the space after the scheme is looked for
startsWithBearer_AnyScheme(value) ==
  /\ Len(value) >= 2
  /\ value[2] = Space

\* String.prototype.startsWith('Bearer ')
startsWithBearer(value) ==
  /\ Len(value) >= 2
  /\ value[1] = Bearer
  /\ value[2] = Space

\* String.prototype.split(' ')
RECURSIVE split(_)
split(value) ==
  IF \E k \in 1..Len(value) : value[k] = Space
  THEN LET k == CHOOSE k \in 1..Len(value) :
                  value[k] = Space /\ \A m \in 1..(k - 1) : value[m] # Space
       IN <<SubSeq(value, 1, k - 1)>> \o split(SubSeq(value, k + 1, Len(value)))
  ELSE <<value>>

\* verify(token, jwtSecret) of the text of tokenParts[1]: only the exact text
\* of a token decodes; FALSE when verify throws
verifyText(text, secret) ==
  /\ Len(text) = 1
  /\ text[1].lit = ""
  /\ verify(text[1].tok, secret)

\* threw: the call ended with an error instead of a result
NoAuth ==
  [called |-> FALSE, req |-> NoHeader, valid |-> FALSE, user |-> NoPayload,
   threw |-> FALSE, verified |-> FALSE, at |-> 0]

\* (mutant) after a failed verify the payload the token claims is returned
authenticateRequest_LeaksPayload(req) ==
  LET invalid == [NoAuth EXCEPT !.called = TRUE, !.req = req, !.at = now]
  IN IF ~req.present \/ req.value = <<>> \/ ~startsWithBearer(req.value)
     THEN invalid
     ELSE LET tokenParts == split(req.value)
          IN IF Len(tokenParts) # 2
             THEN invalid
             ELSE LET token == tokenParts[2]
                  IN IF token = <<>>
                     THEN invalid
                     ELSE IF Len(token) = 1 /\ token[1].lit = ""
                     THEN [invalid EXCEPT !.verified = TRUE,
                                          !.valid = verifyText(token, JwtSecret),
                                          !.user = token[1].tok.payload]
                     ELSE [invalid EXCEPT !.verified = TRUE]

\* BcryptAuthService.authenticateRequest: every path returns a result, the
\* error verify throws is caught; verified: verify() was called
\* (mutant) a verified token is accepted only if the repository has a
\* record of the user it names
authenticateRequest_ChecksRecord(req) ==
  LET invalid == [NoAuth EXCEPT !.called = TRUE, !.req = req, !.at = now]
  IN IF ~req.present \/ req.value = <<>> \/ ~startsWithBearer(req.value)
     THEN invalid
     ELSE LET tokenParts == split(req.value)
          IN IF Len(tokenParts) # 2
             THEN invalid
             ELSE LET token == tokenParts[2]
                  IN IF token = <<>>
                     THEN invalid
                     ELSE IF /\ verifyText(token, JwtSecret)
                             /\ \E r \in users :
                                  /\ r.id = token[1].tok.payload.id
                                  /\ r.username = token[1].tok.payload.username
                     THEN [invalid EXCEPT !.verified = TRUE, !.valid = TRUE,
                                          !.user = token[1].tok.payload]
                     ELSE [invalid EXCEPT !.verified = TRUE]

authenticateRequest(req) ==
  LET invalid == [NoAuth EXCEPT !.called = TRUE, !.req = req, !.at = now]
  IN IF ~req.present \/ req.value = <<>> \/ ~startsWithBearer(req.value)
     THEN invalid
     ELSE LET tokenParts == split(req.value)
          IN IF Len(tokenParts) # 2
             THEN invalid
             ELSE LET token == tokenParts[2]
                  IN IF token = <<>>
                     THEN invalid
                     ELSE IF verifyText(token, JwtSecret)
                     THEN [invalid EXCEPT !.verified = TRUE, !.valid = TRUE,
                                          !.user = token[1].tok.payload]
                     ELSE [invalid EXCEPT !.verified = TRUE]

\* ---------------------------------------------------------------- signUp
Result(success, message, token) ==
  [success |-> success, message |-> message, token |-> token]

\* (mutant) the catch is missing: every create counts as done
signUpResult_NoCatch(error) == Result(TRUE, "User created.", NoToken)

\* (mutant) the catch passes the error of create on to the caller
signUpResult_Rethrow(error) ==
  IF error = "none" THEN Result(TRUE, "User created.", NoToken) ELSE Threw

\* (mutant) the catch handles the uniqueness error only
signUpResult_RethrowOther(error) ==
  IF error = "none" THEN Result(TRUE, "User created.", NoToken)
  ELSE IF error = "unique" THEN Result(FALSE, "Username already exists.", NoToken)
  ELSE Threw

\* (mutant) the catch reports the error of create as the message
signUpResult_RawMessage(error) ==
  IF error = "none" THEN Result(TRUE, "User created.", NoToken)
  ELSE Result(FALSE, error, NoToken)

\* signUp: the try / catch around userRepo.create
signUpResult(error) ==
  IF error = "none"
  THEN Result(TRUE, "User created.", NoToken)
  ELSE Result(FALSE, "Username already exists.", NoToken)

\* signUp called (on a free slot, or on one whose caller has its result):
\* hashPassword is started, the call awaits it
SignUpCall(c, username, password) ==
  /\ pc[c] \in {"idle", "done"}
  /\ pc' = [pc EXCEPT ![c] = "su_hash"]
  /\ call' = [call EXCEPT ![c] = [IdleCall EXCEPT !.op = "signUp",
                 !.username = username, !.password = password,
                 !.was = registered[username]]]
  /\ UNCHANGED <<peppers, jwtExpireTime, users, nextId, now, registered>>
  /\ auth' = NoAuth

\* the hash resolves; userRepo.create runs its INSERT; the call awaits it
\* (mutant) uniqueness is decided by a lookup made when signUp was called,
\* not by the INSERT
SignUpCreate_CheckThenInsert(c) ==
  /\ pc[c] = "su_hash"
  /\ \E salt \in Salts, fault \in BOOLEAN :
       LET hashedPassword == hashPassword(call[c].password, salt)
           username == call[c].username
           error == IF fault THEN "other"
                    ELSE IF call[c].was.by # "none" THEN "unique" ELSE "none"
       IN /\ call' = [call EXCEPT ![c].error = error]
          /\ IF error = "none"
             THEN /\ users' = createRows(username, hashedPassword)
                  /\ nextId' = nextId + 1
                  /\ registered' = [registered EXCEPT ![username] =
                        [password |-> call[c].password, by |-> "signUp",
                         last |-> call[c].password]]
             ELSE UNCHANGED <<users, nextId, registered>>
  /\ pc' = [pc EXCEPT ![c] = "su_created"]
  /\ UNCHANGED <<peppers, jwtExpireTime, now>>
  /\ auth' = NoAuth

SignUpCreate(c) ==
  /\ pc[c] = "su_hash"
  /\ \E salt \in Salts, fault \in BOOLEAN :
       LET hashedPassword == hashPassword(call[c].password, salt)
           username == call[c].username
           error == createError(username, fault)
       IN /\ call' = [call EXCEPT ![c].error = error]
          /\ IF error = "none"
             THEN /\ users' = createRows(username, hashedPassword)
                  /\ nextId' = nextId + 1
                  /\ registered' = [registered EXCEPT ![username] =
                        [password |-> call[c].password, by |-> "signUp",
                         last |-> call[c].password]]
             ELSE UNCHANGED <<users, nextId, registered>>
  /\ pc' = [pc EXCEPT ![c] = "su_created"]
  /\ UNCHANGED <<peppers, jwtExpireTime, now>>
  /\ auth' = NoAuth

\* the try / catch around create produces the result
SignUpReturn(c) ==
  /\ pc[c] = "su_created"
  /\ call' = [call EXCEPT ![c].result = signUpResult(call[c].error)]
  /\ pc' = [pc EXCEPT ![c] = "done"]
  /\ UNCHANGED <<peppers, jwtExpireTime, users, nextId, now, registered>>
  /\ auth' = NoAuth

\* ---------------------------------------------------------------- login
\* (mutant) the payload is built without the id of the record
tokenFor_NoId(user) == sign(user.username, 0, JwtSecret, jwtExpireTime)

\* (mutant) the result of a verified login is built without the token
tokenFor_None(user) == NoToken

\* login: the token of a verified user
tokenFor(user) == sign(user.username, user.id, JwtSecret, jwtExpireTime)

\* login called: findByUsername runs at once; without a record the result is
\* 'User not found.'; otherwise verifyPassword starts: an empty hash is
\* invalid at once, as is every hash when the loop has no pepper to try,
\* else the first compare is started and awaited
\* (mutant) verifyPassword has no guard for an empty digest
LoginCall_ComparesEmpty(c, username, password) ==
  /\ pc[c] \in {"idle", "done"}
  /\ LET user == findByUsername(username)
         base == [IdleCall EXCEPT !.op = "login", !.username = username,
                    !.password = password, !.user = user,
                    !.was = registered[username]]
     IN IF user = NoUser
        THEN /\ call' = [call EXCEPT ![c] =
                  [base EXCEPT !.result = Result(FALSE, "User not found.", NoToken)]]
             /\ pc' = [pc EXCEPT ![c] = "done"]
        ELSE IF peppers = <<>>
        THEN /\ call' = [call EXCEPT ![c] = base]
             /\ pc' = [pc EXCEPT ![c] = "lg_verified"]
        ELSE /\ call' = [call EXCEPT ![c] = [base EXCEPT !.i = 1]]
             /\ pc' = [pc EXCEPT ![c] = "lg_compare"]
  /\ UNCHANGED <<peppers, jwtExpireTime, users, nextId, now, registered>>
  /\ auth' = NoAuth

LoginCall(c, username, password) ==
  /\ pc[c] \in {"idle", "done"}
  /\ LET user == findByUsername(username)
         base == [IdleCall EXCEPT !.op = "login", !.username = username,
                    !.password = password, !.user = user,
                    !.was = registered[username]]
     IN IF user = NoUser
        THEN /\ call' = [call EXCEPT ![c] =
                  [base EXCEPT !.result = Result(FALSE, "User not found.", NoToken)]]
             /\ pc' = [pc EXCEPT ![c] = "done"]
        ELSE IF user.password_hash = EmptyHash \/ peppers = <<>>
        THEN /\ call' = [call EXCEPT ![c] = base]
             /\ pc' = [pc EXCEPT ![c] = "lg_verified"]
        ELSE /\ call' = [call EXCEPT ![c] = [base EXCEPT !.i = 1]]
             /\ pc' = [pc EXCEPT ![c] = "lg_compare"]
  /\ UNCHANGED <<peppers, jwtExpireTime, users, nextId, now, registered>>
  /\ auth' = NoAuth

\* verifyPassword: the compare of pepper i resolves; a match ends the loop,
\* a mismatch starts the compare of the next pepper, or ends the loop
LoginCompare(c) ==
  /\ pc[c] = "lg_compare"
  /\ LET i == call[c].i
         matched == comparePepper(i, call[c].password, call[c].user.password_hash)
     IN IF matched
        THEN /\ call' = [call EXCEPT ![c].isValid = TRUE,
                                     ![c].usedPepper = peppers[i],
                                     ![c].compares = @ + 1]
             /\ pc' = [pc EXCEPT ![c] = "lg_verified"]
        ELSE IF i < Len(peppers)
        THEN /\ call' = [call EXCEPT ![c].i = i + 1, ![c].compares = @ + 1]
             /\ pc' = pc
        ELSE /\ call' = [call EXCEPT ![c].compares = @ + 1]
             /\ pc' = [pc EXCEPT ![c] = "lg_verified"]
  /\ UNCHANGED <<peppers, jwtExpireTime, users, nextId, now, registered>>
  /\ auth' = NoAuth

\* (mutant) every verified login rewrites the digest, whichever pepper matched
LoginVerified_AlwaysRehash(c) ==
  /\ pc[c] = "lg_verified"
  /\ IF ~call[c].isValid
     THEN /\ call' = [call EXCEPT ![c].result = Result(FALSE, "Invalid password.", NoToken)]
          /\ pc' = [pc EXCEPT ![c] = "done"]
     ELSE /\ call' = call
          /\ pc' = [pc EXCEPT ![c] = "lg_rehash"]
  /\ UNCHANGED <<peppers, jwtExpireTime, users, nextId, now, registered>>
  /\ auth' = NoAuth

\* login resumes with {isValid, usedPepper}: 'Invalid password.', or the
\* rotation's hashPassword is started, or the token is signed
LoginVerified(c) ==
  /\ pc[c] = "lg_verified"
  /\ IF ~call[c].isValid
     THEN /\ call' = [call EXCEPT ![c].result = Result(FALSE, "Invalid password.", NoToken)]
          /\ pc' = [pc EXCEPT ![c] = "done"]
     ELSE IF call[c].usedPepper # peppers[1]
     THEN /\ call' = call
          /\ pc' = [pc EXCEPT ![c] = "lg_rehash"]
     ELSE /\ call' = [call EXCEPT ![c].result =
                        Result(TRUE, "Login successful.", tokenFor(call[c].user)),
                      ![c].issuedAt = now]
          /\ pc' = [pc EXCEPT ![c] = "done"]
  /\ UNCHANGED <<peppers, jwtExpireTime, users, nextId, now, registered>>
  /\ auth' = NoAuth

\* the rotation's hash resolves; updatePasswordHash runs its UPDATE; the
\* call awaits it.  fault: the statement throws
\* (mutant) the rewrite hashes under the pepper that matched
LoginRewrite_KeepsPepper(c) ==
  /\ pc[c] = "lg_rehash"
  /\ \E salt \in Salts, fault \in BOOLEAN :
       LET newPasswordHash == BcryptHash(call[c].usedPepper \o call[c].password, salt)
           username == call[c].user.username
       IN IF fault
          THEN /\ call' = [call EXCEPT ![c].error = "other"]
               /\ UNCHANGED <<users, registered>>
          ELSE /\ users' = updateRows(call[c].user.id, newPasswordHash)
               /\ registered' = [registered EXCEPT ![username].by = "login",
                                                   ![username].last = call[c].password]
               /\ call' = [call EXCEPT ![c].rewrote = TRUE]
  /\ pc' = [pc EXCEPT ![c] = "lg_updated"]
  /\ UNCHANGED <<peppers, jwtExpireTime, nextId, now>>
  /\ auth' = NoAuth

LoginRewrite(c) ==
  /\ pc[c] = "lg_rehash"
  /\ \E salt \in Salts, fault \in BOOLEAN :
       LET newPasswordHash == hashPassword(call[c].password, salt)
           username == call[c].user.username
       IN IF fault
          THEN /\ call' = [call EXCEPT ![c].error = "other"]
               /\ UNCHANGED <<users, registered>>
          ELSE /\ users' = updateRows(call[c].user.id, newPasswordHash)
               /\ registered' = [registered EXCEPT ![username].by = "login",
                                                   ![username].last = call[c].password]
               /\ call' = [call EXCEPT ![c].rewrote = TRUE]
  /\ pc' = [pc EXCEPT ![c] = "lg_updated"]
  /\ UNCHANGED <<peppers, jwtExpireTime, nextId, now>>
  /\ auth' = NoAuth

\* login resumes after the await of updatePasswordHash: a rejected update
\* rejects the login, a resolved one is followed by the token
LoginUpdated(c) ==
  /\ pc[c] = "lg_updated"
  /\ call' = [call EXCEPT ![c].result =
        IF call[c].error # "none"
        THEN Threw
        ELSE Result(TRUE, "Login successful.", tokenFor(call[c].user)),
        ![c].issuedAt = now]
  /\ pc' = [pc EXCEPT ![c] = "done"]
  /\ UNCHANGED <<peppers, jwtExpireTime, users, nextId, now, registered>>
  /\ auth' = NoAuth

\* one second passes
Tick ==
  /\ now < MaxClock
  /\ now' = now + 1
  /\ UNCHANGED <<peppers, jwtExpireTime, users, nextId, pc, call, registered>>
  /\ auth' = NoAuth

\* ---------------------------------------------------------------- clients
\* (mutant) an accepted check takes a row id of the table for a record of it
AuthenticateRequest_Audits(req) ==
  /\ auth = NoAuth
  /\ auth' = authenticateRequest(req)
  /\ nextId' = IF authenticateRequest(req).valid THEN nextId + 1 ELSE nextId
  /\ UNCHANGED <<peppers, jwtExpireTime, users, now, pc, call, registered>>

\* a request is checked; its result stands until the next step of the system
AuthenticateRequest(req) ==
  /\ auth = NoAuth
  /\ auth' = authenticateRequest(req)
  /\ UNCHANGED <<peppers, jwtExpireTime, users, nextId, now, pc, call, registered>>

\* the tokens a client holds: those returned by login
Held == {call[c].result.token : c \in {d \in Calls : pc[d] = "done" /\ call[d].result.token # NoToken}}

\* a token altered in one part: another username, id, issue or expiry time
\* under the old signature, or a signature made with another secret
Tampered(t) ==
  {[t EXCEPT !.payload.username = u] : u \in Usernames \ {t.payload.username}}
  \cup {[t EXCEPT !.payload.id = @ + 1], [t EXCEPT !.payload.exp = @ + 1],
        [t EXCEPT !.payload.iat = @ + 1],
        [t EXCEPT !.sig = HS256(OtherSecret, t.payload)],
        [t EXCEPT !.sig.msg.exp = @ + 1]}

\* tokens made without the configured secret
Forged == {sign(u, 1, OtherSecret, jwtExpireTime) : u \in Usernames}

Presented == Held \cup UNION {Tampered(t) : t \in Held} \cup Forged

\* the header a client sends with a token
BearerHeader(token) == Header(<<Bearer, Space, Tok(token)>>)

\* ---------------------------------------------------------------- http
\* server.ts: the fetch handler in front of signUp, login and authenticate.
\* Slot Handler holds the request being served (op: its route) and its
\* response (status, result: the body); slot Served holds the call of
\* signUp / login the handler awaits.
Handler == "c2"
Served == "c1"

\* AuthSchema: z.string().min(3) and z.string().min(6)
MinUsernameLength == 3
MinPasswordLength == 6

\* usernames and passwords of request bodies, below and at the minimum length
HttpNames == {"u1", "usr"}
HttpPasswords ==
  {<<"a", "a", "a", "a", "a">>, <<"a", "a", "a", "a", "a", "a">>,
   <<"a", "a", "a", "a", "a", "b">>}

\* (mutant) the schema has no minimum lengths
AuthSchema_NoMinimum(username, password) == TRUE

\* AuthSchema.safeParse(body).success
AuthSchema(username, password) ==
  /\ Len(username) >= MinUsernameLength
  /\ Len(password) >= MinPasswordLength

\* the status of the response to POST /signup and POST /login; a handler
\* whose awaited call rejects ends with the server's answer to an error
postStatus(route, result) ==
  IF result = Threw THEN 500
  ELSE IF result.success THEN (IF route = "/signup" THEN 201 ELSE 200)
  ELSE 400

\* a POST arrives: the handler awaits AuthBody(req)
HttpPost(route, username, password) ==
  /\ pc[Handler] \in {"idle", "done"}
  /\ pc[Served] \in {"idle", "done"}
  /\ pc' = [pc EXCEPT ![Handler] = "h_await", ![Served] = "idle"]
  /\ call' = [call EXCEPT
        ![Handler] = [IdleCall EXCEPT !.op = route, !.username = username,
                                      !.password = password],
        ![Served] = IdleCall]
  /\ UNCHANGED <<peppers, jwtExpireTime, users, nextId, now, registered>>
  /\ auth' = NoAuth

\* a POST arrives whose body is text that is not JSON
HttpPostText(route) ==
  /\ pc[Handler] \in {"idle", "done"}
  /\ pc[Served] \in {"idle", "done"}
  /\ pc' = [pc EXCEPT ![Handler] = "h_await", ![Served] = "idle"]
  /\ call' = [call EXCEPT
        ![Handler] = [IdleCall EXCEPT !.op = route, !.error = "json"],
        ![Served] = IdleCall]
  /\ UNCHANGED <<peppers, jwtExpireTime, users, nextId, now, registered>>
  /\ auth' = NoAuth

\* AuthBody: req.json() rejects, AuthBody rejects, and the handler, which
\* awaits it outside any try, rejects: the server answers for the error
HttpParseFails ==
  /\ pc[Handler] = "h_await"
  /\ pc[Served] = "idle"
  /\ call[Handler].error = "json"
  /\ pc' = [pc EXCEPT ![Handler] = "done"]
  /\ call' = [call EXCEPT
        ![Handler].status = postStatus(call[Handler].op, Threw),
        ![Handler].result = Threw]
  /\ UNCHANGED <<peppers, jwtExpireTime, users, nextId, now, registered>>
  /\ auth' = NoAuth

\* the body is parsed and fails the schema: 400 with the parse error
HttpInvalid ==
  /\ pc[Handler] = "h_await"
  /\ pc[Served] = "idle"
  /\ call[Handler].error # "json"
  /\ ~AuthSchema(call[Handler].username, call[Handler].password)
  /\ pc' = [pc EXCEPT ![Handler] = "done"]
  /\ call' = [call EXCEPT ![Handler].status = 400,
                           ![Handler].result = Result(FALSE, "<parse error>", NoToken)]
  /\ UNCHANGED <<peppers, jwtExpireTime, users, nextId, now, registered>>
  /\ auth' = NoAuth

\* the body is parsed and passes the schema: signUp or login is called and
\* the handler awaits it
HttpInvoke ==
  /\ pc[Handler] = "h_await"
  /\ pc[Served] = "idle"
  /\ call[Handler].error # "json"
  /\ AuthSchema(call[Handler].username, call[Handler].password)
  /\ \/ /\ call[Handler].op = "/signup"
        /\ SignUpCall(Served, call[Handler].username, call[Handler].password)
     \/ /\ call[Handler].op = "/login"
        /\ LoginCall(Served, call[Handler].username, call[Handler].password)

\* the awaited call has settled: the response is built from its result
HttpRespond ==
  /\ pc[Handler] = "h_await"
  /\ pc[Served] = "done"
  /\ pc' = [pc EXCEPT ![Handler] = "done"]
  /\ call' = [call EXCEPT
        ![Handler].status = postStatus(call[Handler].op, call[Served].result),
        ![Handler].result = call[Served].result]
  /\ UNCHANGED <<peppers, jwtExpireTime, users, nextId, now, registered>>
  /\ auth' = NoAuth

\* GET /profile: authenticate(req), then 401 'Unauthorized' or 200
HttpProfile(req) ==
  /\ pc[Handler] \in {"idle", "done"}
  /\ auth = NoAuth
  /\ auth' = authenticateRequest(req)
  /\ pc' = [pc EXCEPT ![Handler] = "done"]
  /\ call' = [call EXCEPT ![Handler] =
        IF ~authenticateRequest(req).valid
        THEN [IdleCall EXCEPT !.op = "/profile", !.status = 401,
                              !.result = Result(FALSE, "Unauthorized", NoToken)]
        ELSE [IdleCall EXCEPT !.op = "/profile", !.status = 200,
                              !.result = Result(TRUE, "Hello", NoToken)]]
  /\ UNCHANGED <<peppers, jwtExpireTime, users, nextId, now, registered>>

\* signUp called directly, not through the handler
DirectSignUp(username, password) ==
  /\ pc[Handler] \in {"idle", "done"}
  /\ SignUpCall(Served, username, password)

\* ---------------------------------------------------------------- system
\* the record written before this start of the service, if any, under a
\* configuration whose primary pepper is one of the now configured peppers
LegacyRows(names, pepperOf, passwordOf, idOf) ==
  {[id |-> idOf[u], username |-> u,
    password_hash |-> BcryptHash(peppers[pepperOf[u]] \o passwordOf[u], 1)] : u \in names}

Init ==
  /\ peppers \in PepperLists
  /\ jwtExpireTime \in Lifetimes
  /\ \E names \in {{}} \cup {{u} : u \in Usernames} :
       \E pepperOf \in [names -> 1..Len(peppers)], passwordOf \in [names -> Passwords] :
         LET idOf == CHOOSE f \in [names -> 1..Cardinality(names)] :
                        \A u, v \in names : u # v => f[u] # f[v]
         IN /\ users = LegacyRows(names, pepperOf, passwordOf, idOf)
            /\ nextId = Cardinality(names) + 1
            /\ registered = [u \in Usernames |->
                  IF u \in names
                  THEN [password |-> passwordOf[u], by |-> "legacy", last |-> passwordOf[u]]
                  ELSE NotRegistered]
  /\ now = 0
  /\ pc = [c \in Calls |-> "idle"]
  /\ call = [c \in Calls |-> IdleCall]
  /\ auth = NoAuth

\* the calls of signUp and login made on the slots C, cut at their awaits
Service(C) ==
  \/ \E c \in C, u \in Usernames, p \in Passwords : SignUpCall(c, u, p)
  \/ \E c \in C : SignUpCreate(c)
  \/ \E c \in C : SignUpReturn(c)
  \/ \E c \in C, u \in Usernames, p \in Passwords : LoginCall(c, u, p)
  \/ \E c \in C : LoginCompare(c)
  \/ \E c \in C : LoginVerified(c)
  \/ \E c \in C : LoginRewrite(c)
  \/ \E c \in C : LoginUpdated(c)

\* signUp and login, one call at a time, under every configuration
Next == Service({"c1"})

Spec == Init /\ [][Next]_vars

\* createAuthService checks nothing: the service also starts, on an empty
\* table, with a configuration whose pepper list is empty
InitConfig ==
  \/ Init
  \/ /\ peppers = <<>>
     /\ jwtExpireTime \in Lifetimes
     /\ users = {}
     /\ nextId = 1
     /\ registered = [u \in Usernames |-> NotRegistered]
     /\ now = 0
     /\ pc = [c \in Calls |-> "idle"]
     /\ call = [c \in Calls |-> IdleCall]
     /\ auth = NoAuth

SpecConfig == InitConfig /\ [][Next]_vars

\* one configuration; the clock runs and clients present tokens
InitToken ==
  /\ Init
  /\ peppers = <<<<"a">>, <<"b">>>>

NextToken ==
  \/ Service({"c1"})
  \/ \E t \in Presented : AuthenticateRequest(BearerHeader(t))
  \/ Tick

SpecToken == InitToken /\ [][NextToken]_vars

\* the pieces of an Authorization value that carries tokens of T
Pieces(T) == {Bearer, Space, Lit("x")} \cup {Tok(t) : t \in T}

\* one pepper, one user; clients send any Authorization value
InitHeader ==
  /\ Init
  /\ peppers = <<<<"a">>>>
  /\ users # {}

NextHeader ==
  \/ \E u \in Usernames, p \in Passwords : LoginCall("c1", u, p)
  \/ LoginCompare("c1")
  \/ LoginVerified("c1")
  \/ AuthenticateRequest(NoHeader)
  \/ \E n \in 0..MaxHeaderLen : \E value \in [1..n -> Pieces(Held)] :
        AuthenticateRequest(Header(value))

SpecHeader == InitHeader /\ [][NextHeader]_vars

\* the requests without a usable token: no header, another scheme, an empty
\* token, a token that is not a JWT
Malformed ==
  {NoHeader, Header(<<Lit("x"), Space, Lit("x")>>), Header(<<Bearer, Space>>),
   Header(<<Bearer, Space, Lit("x")>>)}

\* one pepper; signUp and login without rotation, the clock, and clients
\* that present held, altered, forged and expired tokens and malformed headers
InitReject ==
  /\ Init
  /\ peppers = <<<<"a">>>>

NextReject ==
  \/ \E u \in Usernames, p \in Passwords : SignUpCall("c1", u, p)
  \/ SignUpCreate("c1")
  \/ SignUpReturn("c1")
  \/ \E u \in Usernames, p \in Passwords : LoginCall("c1", u, p)
  \/ LoginCompare("c1")
  \/ LoginVerified("c1")
  \/ Tick
  \/ \E t \in Presented : AuthenticateRequest(BearerHeader(t))
  \/ \E req \in Malformed : AuthenticateRequest(req)

SpecReject == InitReject /\ [][NextReject]_vars

\* pepper lists after a rotation: a new primary pepper before the retired
\* one, unrelated to it, extending it, or extended by it
RotatedLists ==
  {<<<<"a">>, <<"b">>>>, <<<<"a">>, <<"a", "b">>>>, <<<<"a", "b">>, <<"a">>>>}

InitConverge ==
  /\ Init
  /\ peppers \in RotatedLists

\* signUp and login, and requests with the tokens login returned
NextConverge ==
  \/ Service({"c1"})
  \/ \E t \in Held : AuthenticateRequest(BearerHeader(t))

\* a call that awaits a promise of bcrypt or of the repository resumes when
\* the promise settles, and a call that resumed runs to its next await
Resumes(c) ==
  /\ WF_vars(SignUpCreate(c)) /\ WF_vars(SignUpReturn(c))
  /\ WF_vars(LoginCompare(c)) /\ WF_vars(LoginVerified(c))
  /\ WF_vars(LoginRewrite(c)) /\ WF_vars(LoginUpdated(c))

SpecConverge == InitConverge /\ [][NextConverge]_vars /\ Resumes("c1")

\* the steps of login on the slots C
Logins(C) ==
  \/ \E c \in C, u \in Usernames, p \in Passwords : LoginCall(c, u, p)
  \/ \E c \in C : LoginCompare(c)
  \/ \E c \in C : LoginVerified(c)
  \/ \E c \in C : LoginRewrite(c)
  \/ \E c \in C : LoginUpdated(c)

\* a rotated pepper list and one record; two logins at a time, interleaved
\* at their awaits
InitConc ==
  /\ Init
  /\ peppers \in RotatedLists
  /\ users # {}

NextConc == Logins(Calls)

SpecConc == InitConc /\ [][NextConc]_vars

\* the steps of signUp on the slots C
SignUps(C) ==
  \/ \E c \in C, u \in Usernames, p \in Passwords : SignUpCall(c, u, p)
  \/ \E c \in C : SignUpCreate(c)
  \/ \E c \in C : SignUpReturn(c)

\* a rotated pepper list and an empty table; one signUp and one login at a
\* time, interleaved at their awaits
InitRace ==
  /\ Init
  /\ peppers \in RotatedLists
  /\ users = {}

NextRace == SignUps({"c1"}) \/ Logins({"c2"})

SpecRace == InitRace /\ [][NextRace]_vars

\* a rotated pepper list and an empty table; signUps of two different
\* usernames, one on each slot, interleaved at their awaits
NextDistinct ==
  \/ \E p \in Passwords : SignUpCall("c1", "u1", p)
  \/ \E p \in Passwords : SignUpCall("c2", "u2", p)
  \/ \E c \in Calls : SignUpCreate(c)
  \/ \E c \in Calls : SignUpReturn(c)

SpecDistinct == InitRace /\ [][NextDistinct]_vars

\* one pepper, one user with any password, and tokens that live longer than
\* one tick of the clock
InitReuse ==
  /\ peppers = <<<<"a">>>>
  /\ jwtExpireTime = MaxLifetime + 1
  /\ \E u \in Usernames, p \in Passwords :
       /\ users = LegacyRows({u}, [v \in {u} |-> 1], [v \in {u} |-> p], [v \in {u} |-> 1])
       /\ registered = [v \in Usernames |->
             IF v = u THEN [password |-> p, by |-> "legacy", last |-> p]
             ELSE NotRegistered]
  /\ nextId = 2
  /\ now = 0
  /\ pc = [c \in Calls |-> "idle"]
  /\ call = [c \in Calls |-> IdleCall]
  /\ auth = NoAuth

\* logins, the clock, and clients that present the tokens they hold again
\* and again
NextReuse ==
  \/ \E u \in Usernames, p \in Passwords : LoginCall("c1", u, p)
  \/ LoginCompare("c1")
  \/ LoginVerified("c1")
  \/ Tick
  \/ \E t \in Held : AuthenticateRequest(BearerHeader(t))

SpecReuse == InitReuse /\ [][NextReuse]_vars

\* two peppers; no record, or one of a user with a password of valid length
InitHttp ==
  /\ peppers = <<<<"a">>, <<"b">>>>
  /\ jwtExpireTime \in Lifetimes
  /\ \/ /\ users = {}
        /\ nextId = 1
        /\ registered = [v \in HttpNames |-> NotRegistered]
     \/ \E k \in 1..2, p \in {q \in HttpPasswords : Len(q) >= MinPasswordLength} :
          /\ users = LegacyRows({"usr"}, [v \in {"usr"} |-> k], [v \in {"usr"} |-> p],
                                 [v \in {"usr"} |-> 1])
          /\ nextId = 2
          /\ registered = [v \in HttpNames |->
                IF v = "usr" THEN [password |-> p, by |-> "legacy", last |-> p]
                ELSE NotRegistered]
  /\ now = 0
  /\ pc = [c \in Calls |-> "idle"]
  /\ call = [c \in Calls |-> IdleCall]
  /\ auth = NoAuth

NextHttp ==
  \/ \E route \in {"/signup", "/login"}, u \in HttpNames, p \in HttpPasswords :
        HttpPost(route, u, p)
  \/ \E route \in {"/signup", "/login"} : HttpPostText(route)
  \/ HttpParseFails
  \/ HttpInvalid
  \/ HttpInvoke
  \/ HttpRespond
  \/ HttpProfile(NoHeader)
  \/ \E t \in Held \cup Forged : HttpProfile(BearerHeader(t))
  \/ \E u \in HttpNames, p \in HttpPasswords : DirectSignUp(u, p)
  \/ SignUpCreate(Served)
  \/ SignUpReturn(Served)
  \/ LoginCompare(Served)
  \/ LoginVerified(Served)
  \/ LoginRewrite(Served)
  \/ LoginUpdated(Served)

SpecHttp == InitHttp /\ [][NextHttp]_vars

\* concurrent logins of registered users while the clock advances
InitIssue == Init /\ peppers = <<<<"a">>, <<"b">>>> /\ users # {}

NextIssue == Logins(Calls) \/ Tick

SpecIssue == InitIssue /\ [][NextIssue]_vars

\* a table that holds the record of u1 with an empty password_hash (a row
\* not written by signUp) and the record of u2 with a digest under one of
\* the configured peppers
InitEmpty ==
  /\ peppers \in RotatedLists
  /\ jwtExpireTime \in Lifetimes
  /\ \E k \in 1..Len(peppers), p \in Passwords :
       /\ users = {[id |-> 1, username |-> "u1", password_hash |-> EmptyHash]}
                    \cup LegacyRows({"u2"}, [v \in {"u2"} |-> k], [v \in {"u2"} |-> p],
                                     [v \in {"u2"} |-> 2])
       /\ registered = [v \in Usernames |->
             IF v = "u2" THEN [password |-> p, by |-> "legacy", last |-> p]
             ELSE IF v = "u1"
             THEN [password |-> NoPassword, by |-> "legacy", last |-> NoPassword]
             ELSE NotRegistered]
  /\ nextId = 3
  /\ now = 0
  /\ pc = [c \in Calls |-> "idle"]
  /\ call = [c \in Calls |-> IdleCall]
  /\ auth = NoAuth

SpecEmpty == InitEmpty /\ [][NextConc]_vars

\* an empty table and a bounded number of signUp calls, at most one per
\* slot, of any usernames and passwords, in any interleaving
NextOnce ==
  \/ \E c \in Calls, u \in Usernames, p \in Passwords :
        pc[c] = "idle" /\ SignUpCall(c, u, p)
  \/ \E c \in Calls : SignUpCreate(c)
  \/ \E c \in Calls : SignUpReturn(c)

SpecOnce == InitRace /\ [][NextOnce]_vars

\* tokens signed now with the configured secret that name a user id of
\* which the repository has no record (the id it has not yet given out)
Orphans == {sign(u, nextId, JwtSecret, jwtExpireTime) : u \in Usernames}

\* signUp and login, the clock, and requests that present the tokens login
\* returned, tokens of users without a record, and tokens signed with
\* another secret
NextStore ==
  \/ Service({"c1"})
  \/ Tick
  \/ \E t \in Held \cup Orphans \cup Forged : AuthenticateRequest(BearerHeader(t))

SpecStore == InitToken /\ [][NextStore]_vars

TypeOK == pc \in [Calls -> {"idle", "su_hash", "su_created", "lg_compare", "h_await",
                            "lg_verified", "lg_rehash", "lg_updated", "done"}]

\* ================================================================ claims
LoginAt(c, where) == call[c].op = "login" /\ pc[c] \in where
SignUpAt(c, where) == call[c].op = "signUp" /\ pc[c] \in where
Successful(result) ==
  /\ result.success
  /\ result.message = "Login successful."
  /\ result.token # NoToken

\* the digest login reads was derived from the password the call supplies
DerivedFromSupplied(c) ==
  call[c].user # NoUser /\ call[c].was.last = call[c].password

\* the stored digest of the record login read
StoredHash(c) == (CHOOSE r \in users : r.id = call[c].user.id).password_hash

\* C1: a login that follows the successful signUp of the same username with
\* the same password returns success=true, 'Login successful.' and a
\* non-empty token, under every configured pepper list.
C1_SignUpThenLogin ==
  \A c \in Calls :
    (LoginAt(c, {"done"}) /\ call[c].was.by = "signUp"
       /\ call[c].was.password = call[c].password)
    => Successful(call[c].result)

C1_Witness ==
  \E c \in Calls :
    /\ LoginAt(c, {"done"}) /\ call[c].was.by = "signUp"
    /\ call[c].was.password = call[c].password
    /\ Len(peppers) = 2 /\ call[c].result.token.payload.username = call[c].username

\* C2: a login of a registered user with a password other than the one given
\* at registration returns 'Invalid password.' and no token.
C2_WrongPasswordRejected ==
  \A c \in Calls :
    (LoginAt(c, {"done"}) /\ call[c].was.by # "none"
       /\ call[c].password # call[c].was.password)
    => call[c].result = Result(FALSE, "Invalid password.", NoToken)

\* C3: signUp of a username that already has a record returns
\* 'Username already exists.', and at no step of that call does the table of
\* users (its size, and the id, username and digest of each record) change.
C3_DuplicateResult ==
  \A c \in Calls :
    (SignUpAt(c, {"done"}) /\ call[c].was.by # "none")
    => call[c].result = Result(FALSE, "Username already exists.", NoToken)

C3_DuplicateFrame ==
  \A c \in Calls :
    (SignUpAt(c, {"su_hash", "su_created"}) /\ call[c].was.by # "none"
       /\ pc'[c] # pc[c])
    => users' = users

C3_DuplicateSignUp == [](C3_DuplicateResult) /\ [][C3_DuplicateFrame]_vars

C3_Witness ==
  \E c \in Calls :
    /\ SignUpAt(c, {"done"}) /\ call[c].was.by # "none"
    /\ call[c].password # call[c].was.password
    /\ call[c].error = "unique"
    /\ Cardinality(users) = 2

\* C4: when the digest was derived from the supplied password under a retired
\* pepper only, a login whose update the repository performs succeeds and
\* leaves a stored digest that verifies under peppers[0] alone; a later login
\* with that password matches on peppers[0] at the first compare and rewrites
\* nothing.
RetiredOnly(c) ==
  /\ DerivedFromSupplied(c)
  /\ ~BcryptCompare(peppers[1] \o call[c].password, call[c].user.password_hash)

C4_Rotates ==
  \A c \in Calls :
    (LoginAt(c, {"done"}) /\ RetiredOnly(c) /\ call[c].error = "none")
    => /\ Successful(call[c].result)
       /\ call[c].rewrote
       /\ BcryptCompare(peppers[1] \o call[c].password, StoredHash(c))

C4_SecondLogin ==
  \A c \in Calls :
    (LoginAt(c, {"lg_verified", "lg_rehash", "lg_updated", "done"})
       /\ call[c].was.by = "login" /\ DerivedFromSupplied(c))
    => /\ call[c].isValid
       /\ call[c].usedPepper = peppers[1]
       /\ call[c].compares = 1
       /\ ~call[c].rewrote
       /\ pc[c] \in {"lg_verified", "done"}
       /\ pc[c] = "done" => Successful(call[c].result)

C4_PepperRotation == C4_Rotates /\ C4_SecondLogin

C4_Witness ==
  \E c \in Calls :
    /\ LoginAt(c, {"done"}) /\ call[c].was.by = "login" /\ DerivedFromSupplied(c)
    /\ Successful(call[c].result)
    /\ peppers[1] # peppers[2]

\* C5: a login that verified under a non-primary pepper and whose
\* updatePasswordHash failed still returns success=true, 'Login successful.'
\* and a token.
C5_RewriteFailureNotSurfaced ==
  \A c \in Calls :
    (LoginAt(c, {"done"}) /\ call[c].isValid
       /\ call[c].usedPepper # peppers[1] /\ call[c].error = "other")
    => Successful(call[c].result)

\* C10: login of a username that has no record returns 'User not found.' and
\* no token, whatever the password.
C10_UnknownUser ==
  \A c \in Calls :
    (LoginAt(c, {"lg_compare", "lg_verified", "lg_rehash", "lg_updated", "done"})
       /\ call[c].was.by = "none")
    => /\ pc[c] = "done"
       /\ call[c].result = Result(FALSE, "User not found.", NoToken)

C10_Witness ==
  \E c \in Calls :
    /\ LoginAt(c, {"done"}) /\ call[c].was.by = "none"
    /\ users # {} /\ call[c].password # <<>>


\* the request carries exactly the token login returned to call c
PresentsTokenOf(c) ==
  /\ LoginAt(c, {"done"})
  /\ call[c].result.token # NoToken
  /\ auth.called
  /\ auth.req = BearerHeader(call[c].result.token)

\* expiry of the token of call c: issue time plus the configured lifetime
ExpiryOf(c) == call[c].issuedAt + jwtExpireTime

\* C6: a token returned by a successful login is accepted by
\* authenticateRequest at every time before its expiry (issue time plus the
\* configured lifetime) and rejected at every time after it.
C6_AcceptedUntilExpiry ==
  \A c \in Calls :
    PresentsTokenOf(c)
    => /\ now < ExpiryOf(c) => auth.valid
       /\ now > ExpiryOf(c) => ~auth.valid

C6_Witness ==
  \E c \in Calls :
    /\ PresentsTokenOf(c)
    /\ now > ExpiryOf(c)
    /\ ~auth.valid /\ auth.verified

\* the token of a request of the shape 'Bearer <token>'
RequestToken == auth.req.value[3].tok

\* C7: authenticateRequest returns valid=true only for a token whose signature
\* was made with the configured jwtSecret over exactly its payload; a token
\* signed with another secret, or a returned token altered in any part, is
\* rejected.
C7_OnlyGenuineTokens ==
  /\ (auth.called /\ auth.valid)
       => RequestToken.sig = [key |-> JwtSecret, msg |-> RequestToken.payload]
  /\ \A c \in Calls :
       (LoginAt(c, {"done"}) /\ call[c].result.token # NoToken /\ auth.called)
       => \A t \in Tampered(call[c].result.token) \cup Forged :
            auth.req = BearerHeader(t) => ~auth.valid

C7_Witness ==
  \E c \in Calls :
    /\ LoginAt(c, {"done"}) /\ call[c].result.token # NoToken /\ auth.called
    /\ auth.req = BearerHeader([call[c].result.token EXCEPT !.payload.exp = @ + 1])
    /\ now < ExpiryOf(c)
    /\ ~auth.valid /\ auth.verified

\* the value is exactly 'Bearer', one space, and a non-empty token without a
\* further space
WellShaped(req) ==
  /\ req.present
  /\ Len(req.value) >= 3
  /\ req.value[1] = Bearer
  /\ req.value[2] = Space
  /\ \A k \in 3..Len(req.value) : req.value[k] # Space

\* C8: for every Authorization value that is not exactly 'Bearer', one space
\* and a non-empty token without further segments (no header, another scheme,
\* 'Bearer' alone, an empty token, two spaces, extra segments),
\* authenticateRequest returns valid=false and does not call verify.
C8_MalformedHeader ==
  (auth.called /\ ~WellShaped(auth.req)) => (~auth.valid /\ ~auth.verified)

\* 'Bearer', two spaces and a token that verify would accept
C8_Witness ==
  \E c \in Calls :
    /\ LoginAt(c, {"done"}) /\ call[c].result.token # NoToken
    /\ now < ExpiryOf(c)
    /\ auth.called
    /\ auth.req = Header(<<Bearer, Space, Space, Tok(call[c].result.token)>>)
    /\ ~auth.valid

\* C9: for the token of a successful login of user u, presented before its
\* expiry, authenticateRequest returns valid=true with a payload whose
\* username and id are those of u's stored record.
C9_PayloadIsTheUser ==
  \A c \in Calls :
    (PresentsTokenOf(c) /\ now < ExpiryOf(c))
    => /\ auth.valid
       /\ \E r \in users :
            /\ r.username = call[c].username
            /\ auth.user.username = r.username
            /\ auth.user.id = r.id

C9_Witness ==
  \E c \in Calls :
    /\ PresentsTokenOf(c) /\ now < ExpiryOf(c)
    /\ call[c].username = "u2" /\ auth.user.id = 2
    /\ Cardinality(users) = 2

\* the digest of r was returned by hashPassword in this run
HashedHere(r) == registered[r.username].by \in {"signUp", "login"}

\* C11: two calls of hashPassword with the same password and different salts
\* return different digests, and every digest hashPassword returns for a
\* password is verified by verifyPassword with that password: as a function,
\* for every stored digest, and in the compares of a login that reads it.
C11_HashThenVerify ==
  /\ \A password \in Passwords, s1 \in Salts :
       /\ verifyPassword(password, hashPassword(password, s1)).isValid
       /\ \A s2 \in Salts \ {s1} :
            hashPassword(password, s1) # hashPassword(password, s2)
  /\ \A r \in users :
       HashedHere(r)
       => verifyPassword(registered[r.username].last, r.password_hash).isValid
  /\ \A c \in Calls :
       (LoginAt(c, {"lg_verified", "lg_rehash", "lg_updated", "done"})
          /\ call[c].was.by \in {"signUp", "login"}
          /\ call[c].was.last = call[c].password)
       => call[c].isValid

\* two stored digests of one password differ, and a login verified the second
C11_Witness ==
  \E r1, r2 \in users, c \in Calls :
    /\ HashedHere(r1) /\ HashedHere(r2)
    /\ registered[r1.username].last = registered[r2.username].last
    /\ r1.password_hash.pre = r2.password_hash.pre
    /\ r1.password_hash # r2.password_hash
    /\ LoginAt(c, {"done"}) /\ call[c].user = r2 /\ call[c].isValid
    /\ call[c].password = registered[r2.username].last

\* what the caller of authenticateRequest gets
Outcome(a) == [valid |-> a.valid, user |-> a.user, threw |-> a.threw]

\* {valid: false}
Rejection == [valid |-> FALSE, user |-> NoPayload, threw |-> FALSE]

\* C12: every rejection by authenticateRequest (a signature that does not
\* match, a token that is not a JWT, an expired token, a malformed or missing
\* header) gives the caller the same value {valid: false}, without a payload.
C12_UniformRejection ==
  (auth.called /\ ~auth.valid) => Outcome(auth) = Rejection

\* a held token whose username was altered, presented before its expiry
C12_Witness ==
  \E c \in Calls, u \in Usernames :
    /\ LoginAt(c, {"done"}) /\ call[c].result.token # NoToken
    /\ u # call[c].username
    /\ auth.called
    /\ auth.req = BearerHeader([call[c].result.token EXCEPT !.payload.username = u])
    /\ now < ExpiryOf(c)
    /\ Outcome(auth) = Rejection

\* C13: the expected failures are returned as results, never thrown: a login
\* of an unknown user or with a password no pepper verifies, a signUp of a
\* username that has a record, a request with an invalid, expired or
\* malformed token.
C13_FailuresAreResults ==
  /\ \A c \in Calls :
       (LoginAt(c, {"done"}) /\ call[c].user = NoUser)
       => call[c].result = Result(FALSE, "User not found.", NoToken)
  /\ \A c \in Calls :
       (LoginAt(c, {"done"}) /\ call[c].user # NoUser /\ ~call[c].isValid)
       => call[c].result = Result(FALSE, "Invalid password.", NoToken)
  /\ \A c \in Calls :
       (SignUpAt(c, {"done"}) /\ call[c].error = "unique")
       => (call[c].result # Threw /\ ~call[c].result.success)
  /\ (auth.called /\ ~auth.valid) => ~auth.threw

\* the signUp of a taken username has returned, and a request with a token
\* that is not a JWT was rejected
C13_Witness ==
  \E c \in Calls :
    /\ SignUpAt(c, {"done"}) /\ call[c].error = "unique"
    /\ call[c].result.message = "Username already exists."
    /\ auth.called /\ auth.req = Header(<<Bearer, Space, Lit("x")>>)
    /\ auth.verified /\ ~auth.valid

\* C14: whatever makes create fail (the username is taken, or the statement
\* throws for another cause), signUp returns success=false with the one fixed
\* message: it does not throw and the result does not depend on the error.
C14_CreateFailureIsResult ==
  \A c \in Calls :
    (SignUpAt(c, {"done"}) /\ call[c].error # "none")
    => /\ call[c].result # Threw
       /\ call[c].result = Result(FALSE, "Username already exists.", NoToken)

\* create failed for a cause other than uniqueness, for a username without a
\* record, and no row was added
C14_Witness ==
  \E c \in Calls :
    /\ SignUpAt(c, {"done"}) /\ call[c].error = "other"
    /\ call[c].was.by = "none"
    /\ ~call[c].result.success
    /\ findByUsername(call[c].username) = NoUser

\* C15: no call of signUp or login is answered by a service whose pepper
\* list is empty: such a service is never constructed.
C15_ConfigurationRefused ==
  \A c \in Calls : pc[c] = "done" => peppers # <<>>

\* the messages of AuthResult
Messages ==
  {"User created.", "Username already exists.", "Login successful.",
   "User not found.", "Invalid password."}

\* C16: every result signUp or login returns has one of the five fixed
\* messages, and success=true exactly with 'User created.' and
\* 'Login successful.'.
C16_FixedMessages ==
  \A c \in Calls :
    (pc[c] = "done" /\ call[c].result # Threw)
    => /\ call[c].result.message \in Messages
       /\ call[c].result.success
            <=> call[c].result.message \in {"User created.", "Login successful."}

\* the signUp of a second username returned its result
C16_Witness ==
  \E c \in Calls :
    /\ SignUpAt(c, {"done"}) /\ call[c].result.message = "User created."
    /\ call[c].result.success
    /\ Cardinality(users) = 2

\* C17: a result of login has a token exactly when its success is true: none
\* for an unknown user or a password no pepper verifies, one for every
\* successful login.
C17_TokenIffSuccess ==
  \A c \in Calls :
    (LoginAt(c, {"done"}) /\ call[c].result # Threw)
    => (call[c].result.token # NoToken <=> call[c].result.success)

\* a login that rewrote the digest returned success with the token of its user
C17_Witness ==
  \E c \in Calls :
    /\ LoginAt(c, {"done"}) /\ call[c].rewrote
    /\ call[c].result.success
    /\ call[c].result.token.payload.username = call[c].username
    /\ call[c].result.token.sig.key = JwtSecret

\* the stored digest of u does not verify, under peppers[0], the password it
\* was derived from
Retired(u) ==
  \E r \in users :
    /\ r.username = u
    /\ ~BcryptCompare(primaryPepper \o registered[u].last, r.password_hash)

AllCurrent == \A u \in Usernames : ~Retired(u)

\* a login of u with the password of the stored digest has returned, and no
\* update of it failed
CorrectLoginDone(u) ==
  \E c \in Calls :
    /\ LoginAt(c, {"done"}) /\ call[c].username = u
    /\ DerivedFromSupplied(c) /\ call[c].error = "none"

\* C18: if every user whose digest is under a retired pepper eventually
\* completes a login with the correct password whose rewrite succeeds, then
\* eventually every stored digest verifies under peppers[0] for good; and
\* once all digests verify under peppers[0], no step of signUp, login or
\* authenticateRequest ends that.
C18_Convergence ==
  /\ (\A u \in Usernames : Retired(u) ~> CorrectLoginDone(u)) => <>[]AllCurrent
  /\ [][AllCurrent => AllCurrent']_vars

\* a record that was under the retired pepper has been rewritten, a second
\* record was created, and every digest verifies under peppers[0]
C18_Witness ==
  /\ AllCurrent
  /\ Cardinality(users) = 2
  /\ \E c \in Calls : LoginAt(c, {"done"}) /\ RetiredOnly(c) /\ call[c].rewrote

\* two logins of one user, both with the password of the stored digest, both
\* having read the digest while it was under a retired pepper, both returned
BothRotate(c, d) ==
  /\ c # d
  /\ LoginAt(c, {"done"}) /\ LoginAt(d, {"done"})
  /\ call[c].username = call[d].username
  /\ RetiredOnly(c) /\ RetiredOnly(d)

\* C19: when two logins of the same user with the correct password both read
\* a digest under a retired pepper, then however their steps interleave, and
\* provided the repository performs their updates, both return success with
\* a token, both rewrite, and the digest stored in the end verifies that
\* password under peppers[0].
C19_ConcurrentRotation ==
  \A c, d \in Calls :
    (BothRotate(c, d) /\ call[c].error = "none" /\ call[d].error = "none")
    => /\ Successful(call[c].result) /\ Successful(call[d].result)
       /\ call[c].rewrote /\ call[d].rewrote
       /\ BcryptCompare(primaryPepper \o call[c].password, StoredHash(c))

\* both logins rewrote, with different salts
C19_Witness ==
  \E c, d \in Calls :
    /\ BothRotate(c, d)
    /\ call[c].rewrote /\ call[d].rewrote
    /\ Successful(call[c].result) /\ Successful(call[d].result)
    /\ StoredHash(c).salt = 2

\* the step is the UPDATE of a login that verified the password of record r
\* under a pepper other than peppers[0]
RotationOf(r) ==
  \E c \in Calls :
    /\ LoginAt(c, {"lg_rehash"}) /\ pc'[c] = "lg_updated"
    /\ call[c].user.id = r.id
    /\ call[c].isValid /\ call[c].usedPepper # primaryPepper

\* C20: in every step of signUp, login, authenticateRequest every existing
\* record keeps its id and username and stays the only record with that id,
\* and keeps its digest unless the step is the update of a login that matched
\* a non-primary pepper for that record.
C20_Frame ==
  \A r \in users :
    /\ \E r2 \in users' : r2.id = r.id /\ r2.username = r.username
    /\ \A r2 \in users' : r2.id = r.id => r2.username = r.username
    /\ r \notin users' => RotationOf(r)

C20_RecordLifecycle == [][C20_Frame]_vars

\* a login matched peppers[0] and returned, the record it read is stored
\* as it was read, its token was accepted, and the digest of some record has
\* been rewritten by a rotation
C20_Witness ==
  \E c \in Calls :
    /\ LoginAt(c, {"done"}) /\ Successful(call[c].result)
    /\ call[c].usedPepper = primaryPepper /\ ~call[c].rewrote
    /\ call[c].user \in users
    /\ auth.called /\ auth.valid
    /\ \E r \in users : registered[r.username].by = "login"

\* call c is a signUp of a username that had no record, call d a login of
\* that username with the same password that read no record or the record as
\* this signUp wrote it (no third call has written it in between)
Racing(c, d) ==
  /\ SignUpAt(c, {"su_hash", "su_created", "done"}) /\ call[c].was.by = "none"
  /\ call[d].op = "login"
  /\ call[d].username = call[c].username
  /\ call[d].password = call[c].password
  /\ call[d].was.by = "none" \/ DerivedFromSupplied(d)

\* C21: however a signUp(u, p) of a new username and a login(u, p) interleave,
\* the login does not rewrite and returns 'User not found.' or success with a
\* token; it never returns 'Invalid password.' and is never rejected.
C21_SignUpLoginRace ==
  \A c, d \in Calls :
    Racing(c, d)
    => /\ pc[d] \notin {"lg_rehash", "lg_updated"}
       /\ pc[d] = "done"
            => \/ call[d].result = Result(FALSE, "User not found.", NoToken)
               \/ Successful(call[d].result)

\* the signUp has inserted and not yet returned while the login, which read
\* the new record, awaits its compare
C21_Witness ==
  \E c, d \in Calls :
    /\ Racing(c, d)
    /\ pc[c] = "su_created" /\ call[c].error = "none"
    /\ pc[d] = "lg_compare"
    /\ call[d].user = findByUsername(call[c].username)

\* calls c and d are signUps of two different usernames, neither of which had
\* a record, both returned, and neither INSERT failed for a cause of the
\* database
BothNew(c, d) ==
  /\ c # d
  /\ SignUpAt(c, {"done"}) /\ SignUpAt(d, {"done"})
  /\ call[c].username # call[d].username
  /\ call[c].was.by = "none" /\ call[d].was.by = "none"
  /\ call[c].error # "other" /\ call[d].error # "other"

\* C22: signUps of different new usernames all return success=true however
\* their steps interleave, and the table has grown by one record per call,
\* each with its own id, username and digest.
C22_DistinctSignUps ==
  \A c, d \in Calls :
    BothNew(c, d)
    => /\ call[c].result = Result(TRUE, "User created.", NoToken)
       /\ call[d].result = Result(TRUE, "User created.", NoToken)
       /\ Cardinality(users) = 2
       /\ Cardinality({r.id : r \in users}) = 2
       /\ \A e \in {c, d} :
            \E r \in users :
              /\ r.username = call[e].username
              /\ r.password_hash.pre = primaryPepper \o call[e].password

\* both signUps returned success, the one on the first slot with the second
\* id: its INSERT ran after the other's
C22_Witness ==
  \E c, d \in Calls :
    /\ BothNew(c, d)
    /\ call[c].result.success /\ call[d].result.success
    /\ findByUsername(call[c].username).id = 2
    /\ findByUsername(call[d].username).id = 1
    /\ c = "c1" /\ call[c].password = call[d].password

\* C23: no stored password_hash is the plaintext password supplied for it,
\* at signUp or at the login that rewrote it.
C23_NeverPlaintext ==
  \A r \in users :
    /\ r.password_hash # Raw(registered[r.username].password)
    /\ r.password_hash # Raw(registered[r.username].last)

\* a record with a non-empty password that a login with that password has
\* rewritten, next to a record created by signUp
C23_Witness ==
  \E r \in users :
    /\ registered[r.username].by = "login"
    /\ registered[r.username].last # <<>>
    /\ registered[r.username].last = registered[r.username].password
    /\ r.password_hash.pre = primaryPepper \o registered[r.username].last
    /\ \E r2 \in users : registered[r2.username].by = "signUp"

\* every token login can sign within the bounds of the model
Issuable ==
  {[payload |-> [username |-> u, id |-> id, iat |-> iat, exp |-> iat + life],
    sig |-> HS256(JwtSecret, [username |-> u, id |-> id, iat |-> iat, exp |-> iat + life])] :
      u \in Usernames, id \in 1..2, iat \in 0..MaxClock,
      life \in 1..(MaxLifetime + 1)}

\* the last check was of a request that carries token t
Checked(t) == auth.called /\ auth.req = BearerHeader(t)

\* the step is a check by authenticateRequest
IsCheck == ~auth.called /\ auth'.called

\* C24: a check by authenticateRequest changes nothing of the service's
\* state, and a token that was accepted once is accepted at every later
\* check made before its expiry.
C24_TokenReuse ==
  /\ [][IsCheck => UNCHANGED <<peppers, jwtExpireTime, users, nextId, now,
                                pc, call, registered>>]_vars
  /\ \A t \in Issuable :
       []((Checked(t) /\ auth.valid)
            => []((Checked(t) /\ now < t.payload.exp) => auth.valid))

\* the token of a login is accepted at a check made after the clock moved
C24_Witness ==
  \E c \in Calls :
    /\ PresentsTokenOf(c)
    /\ auth.valid
    /\ auth.at > call[c].issuedAt
    /\ call[c].result.token \in Issuable

\* a response to a request on the given route has been sent
Answered(route) == pc[Handler] = "done" /\ call[Handler].op = route

\* the call the answered request awaited returned success = true (the
\* response carries the result of that call)
ServedSucceeded ==
  /\ call[Handler].result # Threw
  /\ call[Handler].result.success

\* C25: the HTTP layer maps results to statuses exactly: POST /signup is
\* answered 201 when signUp succeeds and 400 otherwise, POST /login 200 when
\* login succeeds and 400 otherwise, GET /profile 401 with message
\* 'Unauthorized' exactly when the token check is invalid and 200 otherwise.
C25_StatusMapping ==
  /\ Answered("/signup") =>
       call[Handler].status = (IF ServedSucceeded THEN 201 ELSE 400)
  /\ Answered("/login") =>
       call[Handler].status = (IF ServedSucceeded THEN 200 ELSE 400)
  /\ (Answered("/profile") /\ auth.called) =>
       /\ (call[Handler].status = 401 /\ call[Handler].result.message = "Unauthorized")
            <=> ~auth.valid
       /\ auth.valid => call[Handler].status = 200

\* the request being served has a JSON body whose username or password is
\* too short
ShortBody ==
  /\ call[Handler].op \in {"/signup", "/login"}
  /\ call[Handler].error # "json"
  /\ \/ Len(call[Handler].username) < MinUsernameLength
     \/ Len(call[Handler].password) < MinPasswordLength

\* while a request with a short body is being served, no call of signUp or
\* login is made and no record is created
C26_Frame ==
  (pc[Handler] = "h_await" /\ ShortBody) =>
    (pc'[Served] = "idle" /\ users' = users /\ nextId' = nextId)

\* C26: a POST /signup or POST /login with a username shorter than 3 or a
\* password shorter than 6 characters is answered 400 and never reaches
\* signUp / login: no record is created and no token is issued; the same
\* short values passed directly to signUp are not rejected by the core.
C26_ShortBodiesStopAtTheHandler ==
  /\ [](pc[Handler] = "done" /\ ShortBody =>
          /\ call[Handler].status = 400
          /\ call[Handler].result # Threw
          /\ ~call[Handler].result.success
          /\ call[Handler].result.token = NoToken)
  /\ [][C26_Frame]_vars
  /\ [](\A c \in Calls :
          (/\ pc[c] = "done"
           /\ call[c].op = "signUp"
           /\ call[c].was.by = "none"
           /\ call[c].error = "none") => call[c].result.success)

\* a POST /signup with a short username and a short password was answered
\* 400, and then signUp, called directly with the same two values, returned
\* success and created the record
C26_Witness ==
  /\ pc[Handler] = "done"
  /\ call[Handler].op = "/signup"
  /\ call[Handler].status = 400
  /\ Len(call[Handler].username) < MinUsernameLength
  /\ Len(call[Handler].password) < MinPasswordLength
  /\ pc[Served] = "done"
  /\ call[Served].op = "signUp"
  /\ call[Served].username = call[Handler].username
  /\ call[Served].password = call[Handler].password
  /\ call[Served].result.success
  /\ \E r \in users : r.username = call[Handler].username

\* verifyPassword of call c has returned (the digest it read was not empty)
Verified(c) ==
  /\ call[c].op = "login"
  /\ pc[c] \in {"lg_verified", "lg_rehash", "lg_updated", "done"}
  /\ call[c].user # NoUser
  /\ call[c].user.password_hash # EmptyHash

\* pepper k, put before the password of call c, matches the digest c read
MatchesAt(c, k) ==
  BcryptCompare(peppers[k] \o call[c].password, call[c].user.password_hash)

\* C27: verifyPassword tries the peppers in configured order and stops at
\* the first match: isValid = true comes with usedPepper = the pepper of the
\* lowest matching index and no comparison after it; isValid = false comes
\* with usedPepper = null after exactly one comparison per pepper.
C27_FirstMatchWins ==
  \A c \in Calls : Verified(c) =>
    /\ verifyPassword(call[c].password, call[c].user.password_hash) =
         [isValid |-> call[c].isValid, usedPepper |-> call[c].usedPepper,
          compares |-> call[c].compares]
    /\ IF \E k \in 1..Len(peppers) : MatchesAt(c, k)
       THEN \E k \in 1..Len(peppers) :
              /\ MatchesAt(c, k)
              /\ \A j \in 1..(k - 1) : ~MatchesAt(c, j)
              /\ call[c].isValid
              /\ call[c].usedPepper = peppers[k]
              /\ call[c].compares = k
       ELSE /\ ~call[c].isValid
            /\ call[c].usedPepper = NullPepper
            /\ call[c].compares = Len(peppers)

\* one login matched at the second pepper after one failed comparison, and
\* another matched no pepper after one comparison per pepper
C27_Witness ==
  \E c, d \in Calls :
    /\ Verified(c) /\ call[c].isValid
    /\ call[c].usedPepper = peppers[2] /\ call[c].compares = 2
    /\ Verified(d) /\ ~call[d].isValid
    /\ call[d].usedPepper = NullPepper /\ call[d].compares = Len(peppers)

\* calls c and d are logins of one user that both returned a token
TwoLogins(c, d) ==
  /\ LoginAt(c, {"done"}) /\ LoginAt(d, {"done"})
  /\ call[c].username = call[d].username
  /\ call[c].result # Threw /\ call[d].result # Threw
  /\ call[c].result.success /\ call[d].result.success

\* C28: two tokens issued by two successful logins of the same user are
\* always different strings, also when both are issued at the same clock
\* value.
C28_TokensDiffer ==
  \A c, d \in Calls :
    (c # d /\ TwoLogins(c, d)) => call[c].result.token # call[d].result.token

\* in this step call c writes record r: the INSERT of signUp or the UPDATE
\* of the rotation rewrite
Writes(c, r) ==
  \/ /\ pc[c] = "su_hash" /\ pc'[c] = "su_created"
     /\ r.username = call[c].username
  \/ /\ pc[c] = "lg_rehash" /\ pc'[c] = "lg_updated"
     /\ r.id = call[c].user.id

\* every record a step puts into the table was written by a call, with a
\* bcrypt digest of peppers[0] + the password that call supplied, which is
\* the digest of no other configured pepper + that password
C29_Frame ==
  \A r \in users' \ users :
    \E c \in Calls :
      /\ Writes(c, r)
      /\ r.password_hash.salt \in Salts
      /\ r.password_hash.pre = peppers[1] \o call[c].password
      /\ \A k \in 2..Len(peppers) :
           peppers[k] # peppers[1] =>
             r.password_hash.pre # peppers[k] \o call[c].password

\* C29: every digest the service writes to the repository, by signUp or by
\* the rotation rewrite in login, is derived from peppers[0] concatenated
\* with the supplied password, never from a retired pepper.
C29_WritesUnderPrimary == [][C29_Frame]_vars

\* a login that matched a retired pepper has rewritten the digest, and the
\* stored digest is the one of peppers[0] + its password
C29_Witness ==
  \E c \in Calls :
    /\ LoginAt(c, {"lg_updated", "done"})
    /\ call[c].rewrote
    /\ call[c].usedPepper # peppers[1]
    /\ StoredHash(c).pre = peppers[1] \o call[c].password
    /\ StoredHash(c) # call[c].user.password_hash

\* call c is a login of a record whose stored digest is empty
ReadsEmpty(c) ==
  /\ call[c].op = "login"
  /\ pc[c] # "idle"
  /\ call[c].user # NoUser
  /\ call[c].user.password_hash = EmptyHash

\* C30: when the stored digest is empty or absent, verifyPassword returns
\* isValid = false with usedPepper = null without any comparison, and the
\* login returns 'Invalid password.' with no token and no rewrite.
C30_EmptyDigest ==
  \A c \in Calls : ReadsEmpty(c) =>
    /\ pc[c] \in {"lg_verified", "done"}
    /\ ~call[c].isValid
    /\ call[c].usedPepper = NullPepper
    /\ call[c].compares = 0
    /\ verifyPassword(call[c].password, EmptyHash) =
         [isValid |-> FALSE, usedPepper |-> NullPepper, compares |-> 0]
    /\ ~call[c].rewrote
    /\ StoredHash(c) = EmptyHash
    /\ pc[c] = "done" =>
         call[c].result = Result(FALSE, "Invalid password.", NoToken)

\* a login of the record with the empty digest has returned, and a login of
\* the other record has compared at least one pepper
C30_Witness ==
  \E c, d \in Calls :
    /\ ReadsEmpty(c) /\ pc[c] = "done"
    /\ call[c].result.message = "Invalid password."
    /\ LoginAt(d, {"done"}) /\ call[d].compares > 0

\* call c is a login that returned a token
Issued(c) ==
  /\ LoginAt(c, {"done"})
  /\ call[c].result # Threw
  /\ call[c].result.success

\* C31: every token issued by login carries username, id, an issued-at
\* equal to the clock at issue and an expiry equal to issued-at plus the
\* configured lifetime, so expiry minus issued-at is one constant for all
\* tokens of a configuration.
C31_TokenTimes ==
  /\ \A c \in Calls : Issued(c) =>
       LET payload == call[c].result.token.payload
       IN /\ payload.username = call[c].user.username
          /\ payload.id = call[c].user.id
          /\ payload.iat = call[c].issuedAt
          /\ payload.iat <= now
          /\ payload.exp = payload.iat + jwtExpireTime
  /\ \A c, d \in Calls : (Issued(c) /\ Issued(d)) =>
       LET p == call[c].result.token.payload
           q == call[d].result.token.payload
       IN p.exp - p.iat = q.exp - q.iat

\* two tokens issued at different clock values, neither at clock 0, with the
\* same lifetime
C31_Witness ==
  \E c, d \in Calls :
    /\ Issued(c) /\ Issued(d)
    /\ 0 < call[c].issuedAt
    /\ call[c].issuedAt < call[d].issuedAt
    /\ call[c].result.token.payload.exp = call[c].issuedAt + jwtExpireTime
    /\ call[d].result.token.payload.exp = call[d].issuedAt + jwtExpireTime

\* the signUp calls that have returned success = true
Succeeded == {c \in Calls : SignUpAt(c, {"done"}) /\ call[c].result.success}

\* no signUp call is in progress
Quiescent == \A c \in Calls : pc[c] \in {"idle", "done"}

\* a step adds one record when it is the INSERT of a signUp that did not
\* fail, and no record otherwise
C32_Frame ==
  Cardinality(users') = Cardinality(users) +
    Cardinality({c \in Calls : /\ pc[c] = "su_hash" /\ pc'[c] = "su_created"
                               /\ call'[c].error = "none"})

\* C32: in every reachable state no two user records share a username, and
\* after any sequence of signUp calls the number of records equals the
\* number of signUp calls that returned success = true.
C32_UserCount ==
  /\ [](\A r, s \in users : r.username = s.username => r = s)
  /\ [](Quiescent => Cardinality(users) = Cardinality(Succeeded))
  /\ [](\A c \in Calls : SignUpAt(c, {"done"}) =>
          (call[c].result.success <=> call[c].error = "none"))
  /\ [][C32_Frame]_vars

\* two signUp calls of one username have returned, one with success and one
\* without, and the table holds one record
C32_Witness ==
  \E c, d \in Calls :
    /\ SignUpAt(c, {"done"}) /\ SignUpAt(d, {"done"})
    /\ call[c].username = call[d].username
    /\ call[c].result.success /\ ~call[d].result.success
    /\ Cardinality(users) = 1

\* C33: a POST /signup or POST /login whose body is not valid JSON is
\* answered with status 400; the failure to parse the body does not escape
\* the request handler.
C33_MalformedJson ==
  (/\ pc[Handler] = "done"
   /\ call[Handler].op \in {"/signup", "/login"}
   /\ call[Handler].error = "json")
    => (call[Handler].status = 400 /\ call[Handler].result # Threw)

\* the record of a registered user
RecordOf(u) == CHOOSE r \in users : r.username = u

\* C34: rotation never changes which password a user owns: after any
\* sequence of successful logins the password given at signUp still
\* authenticates and no other password does, also when one pepper is a
\* prefix of another (stated of the records a login has rewritten).
C34_PasswordOwnership ==
  \A u \in Usernames :
    registered[u].by = "login" =>
      \A q \in Passwords :
        verifyPassword(q, RecordOf(u).password_hash).isValid
          <=> q = registered[u].password

\* login c returned success after matching a pepper other than peppers[0]
RotatedLogin(c) == Issued(c) /\ call[c].usedPepper # peppers[1]

\* the step in which a login that matched a retired pepper produces its
\* success result starts in a state where its UPDATE has been done and the
\* table holds a digest under peppers[0]
C35_Frame ==
  \A c \in Calls :
    (/\ pc[c] # "done" /\ pc'[c] = "done"
     /\ call'[c].op = "login"
     /\ call'[c].result.success
     /\ call'[c].usedPepper # peppers[1])
      => /\ pc[c] = "lg_updated"
         /\ call[c].rewrote
         /\ BcryptCompare(peppers[1] \o call[c].password, StoredHash(c))

SameNew(c, d) ==
  /\ c # d
  /\ SignUpAt(c, {"done"}) /\ SignUpAt(d, {"done"})
  /\ call[c].username = call[d].username
  /\ call[c].was.by = "none" /\ call[d].was.by = "none"
  /\ call[c].error # "other" /\ call[d].error # "other"

\* C36: of concurrent signUp calls with the same new username and possibly
\* different passwords, in every interleaving exactly one returns success,
\* every other returns 'Username already exists.', exactly one record of the
\* username exists afterwards, and its digest verifies the password of the
\* call that succeeded.
C36_SameUsernameRace ==
  \A c, d \in Calls :
    SameNew(c, d) =>
      \E w \in {c, d} :
        /\ call[w].result = Result(TRUE, "User created.", NoToken)
        /\ \A l \in {c, d} \ {w} :
             call[l].result = Result(FALSE, "Username already exists.", NoToken)
        /\ Cardinality({r \in users : r.username = call[w].username}) = 1
        /\ verifyPassword(call[w].password,
                          RecordOf(call[w].username).password_hash).isValid
        /\ RecordOf(call[w].username).password_hash.pre =
             primaryPepper \o call[w].password

\* two signUp calls of one new username with different passwords ran
\* concurrently; one succeeded, the other did not, and the stored digest is
\* the one of the first and does not verify the password of the second
C36_Witness ==
  \E c, d \in Calls :
    /\ SameNew(c, d)
    /\ call[c].password # call[d].password
    /\ call[c].result.success /\ ~call[d].result.success
    /\ RecordOf(call[c].username).password_hash.pre =
         primaryPepper \o call[c].password
    /\ ~verifyPassword(call[d].password,
                       RecordOf(call[c].username).password_hash).isValid

\* C37: signUp returns 'Username already exists.' only if a record with
\* that username is in the repository when it returns; a create failure
\* with another cause is not reported as a duplicate username.
C37_DuplicateMeansDuplicate ==
  \A c \in Calls :
    (/\ SignUpAt(c, {"done"})
     /\ call[c].result.message = "Username already exists.")
      => /\ findByUsername(call[c].username) # NoUser
         /\ call[c].error = "unique"

\* the token of the request that was checked last (the requests of this
\* specification carry 'Bearer ' and the text of a token)
CheckedToken == auth.req.value[3].tok

\* C38: the result of authenticateRequest depends only on the Authorization
\* header, the signing secret and the current time, never on the user
\* store: a token is accepted exactly when its signature is the one of the
\* configured secret and it has not expired, also after the digest of its
\* user was rotated and also when no record has the user id it names.
C38_StoreIndependent ==
  auth.called =>
    /\ auth.valid <=>
         (/\ CheckedToken.sig = HS256(JwtSecret, CheckedToken.payload)
          /\ auth.at < CheckedToken.payload.exp)
    /\ auth.valid => auth.user = CheckedToken.payload
    /\ \A c \in Calls :
         (/\ RotatedLogin(c)
          /\ CheckedToken = call[c].result.token
          /\ auth.at < CheckedToken.payload.exp) => auth.valid

\* a token naming a user id without a record was accepted, in a state where
\* a login has rotated the digest of a record
C38_Witness ==
  /\ auth.called /\ auth.valid
  /\ \A r \in users : r.id # auth.user.id
  /\ \E u \in Usernames : registered[u].by = "login"

====
